---- MODULE Spec2Model ----
(***************************************************************************)
(* A model of momental (src/src/App.tsx, the current revision of the file, *)
(* lines 379-881): the IndexedDB store "testdb" with its two object stores *)
(* "entries" and "settings", the App component's initialization effect,    *)
(* its load / insert / delete callbacks and its memoized balance, and the  *)
(* SettingsEditor component with its two timers.                           *)
(*                                                                         *)
(* Values.  A JavaScript number or string is a record [kind, v]:           *)
(*   kind "num"   the number v, counted in units of 10^-ModelDigits        *)
(*   kind "nan"   NaN                                                      *)
(*   kind "empty" the string ""                                            *)
(*   kind "junk"  a string that is no numeric literal, such as "abc"       *)
(*   kind "dec"   a decimal literal such as "7.555", of value v units      *)
(*   kind "dot"   a decimal literal with a trailing dot, such as "12."     *)
(* Arithmetic is exact on the units: every amount of the model is a whole  *)
(* number of units, so the rounding of IEEE doubles is outside the model.  *)
(*                                                                         *)
(* Instants are whole numbers of ticks, TicksPerDay ticks to a day, on the *)
(* absolute (UTC) axis; the host's time zone tz is the number of ticks the *)
(* local clock is ahead of it.                                             *)
(***************************************************************************)
EXTENDS Integers, Sequences, FiniteSets, TLC

VARIABLES
  now,             \* the host clock: new Date()
  tz,              \* the host time zone of the running session
  dbSettings,      \* object store "settings": a set of <<key, value>>
  dbEntries,       \* object store "entries": a set of SpendEntry records
  nextId,          \* the key generator of "entries" (autoIncrement)
  phase,           \* where the initialization effect of the session is
  settings,        \* App state `settings`: <<>> is undefined, <<s>> is s
  entries,         \* App state `entries`: the array, in its current order
  balance,         \* the memoized balance of the last render that computed it
  editingSettings, \* App state `editingSettings`
  editor,          \* the mounted SettingsEditor: <<>> or <<its state>>
  qSettings,       \* requests on "settings" the backend has not served yet
  qEntries,        \* requests on "entries" the backend has not served yet
  crashed,         \* a render threw: React has unmounted the tree
  hist             \* history of the run (observes, never steers)

vars == <<now, tz, dbSettings, dbEntries, nextId, phase, settings, entries,
          balance, editingSettings, editor, qSettings, qEntries, crashed, hist>>

-----------------------------------------------------------------------------
(* Bounds of the model *)

ModelDigits == 3      \* decimal digits the model keeps after the point
TicksPerDay == 2      \* instants the model tells apart within one day
MaxNow == 1           \* the clock stops advancing at this tick
MaxId == 1            \* entries ever inserted into one database
MaxRuns == 2          \* sessions (page loads) against one database
MaxQueue == 2         \* requests waiting on "settings"
MaxEntryQueue == 1    \* requests waiting on "entries"
MaxEdits == 2         \* field edits made in the settings panel

(* Program constants *)

FixedDigits == 2          \* toFixed(2)
DefaultDailyBudget == 40  \* initSettings.dailyBudget
DefaultStartAmount == 0   \* initSettings.startAmount
CommitDelay == 2000       \* setTimeout(..., 2000): the commit timer `id`
SavingDelay == 2500       \* setTimeout(..., 2500): the timer `id2`
SettingsKey == "settings"

-----------------------------------------------------------------------------
(* Numbers and strings *)

RECURSIVE Pow10(_)
Pow10(n) == IF n <= 0 THEN 1 ELSE 10 * Pow10(n - 1)

Unit == Pow10(ModelDigits)                   \* 1.00 in units
CentUnits == Pow10(ModelDigits - FixedDigits) \* 0.01 in units

Num(v) == [kind |-> "num", v |-> v]
NaN == [kind |-> "nan", v |-> 0]
EmptyStr == [kind |-> "empty", v |-> 0]
JunkStr == [kind |-> "junk", v |-> 0]
DecStr(v) == [kind |-> "dec", v |-> v]
DotStr(v) == [kind |-> "dot", v |-> v]

\* Number(x): a number is itself, "" is 0, a decimal literal is its value,
\* any other string is NaN.
Number(x) ==
  CASE x.kind = "num" -> x
    [] x.kind = "nan" -> x
    [] x.kind = "empty" -> Num(0)
    [] x.kind = "dec" -> Num(x.v)
    [] x.kind = "dot" -> Num(x.v)
    [] OTHER -> NaN

isNaN(x) == Number(x).kind = "nan"

NumAdd(a, b) == IF a.kind = "nan" \/ b.kind = "nan" THEN NaN ELSE Num(a.v + b.v)
NumSub(a, b) == IF a.kind = "nan" \/ b.kind = "nan" THEN NaN ELSE Num(a.v - b.v)
\* a number times a whole count (of days)
NumTimes(a, n) == IF a.kind = "nan" THEN NaN ELSE Num(a.v * n)

\* x.toFixed(2): the decimal text of x rounded to FixedDigits digits (half
\* away from zero); NaN gives the text "NaN", which is no numeric literal.
RoundToCents(v) ==
  IF v >= 0 THEN ((2 * v + CentUnits) \div (2 * CentUnits)) * CentUnits
  ELSE -(((2 * (-v) + CentUnits) \div (2 * CentUnits)) * CentUnits)

toFixed(x) == IF x.kind = "nan" THEN JunkStr ELSE DecStr(RoundToCents(x.v))

-----------------------------------------------------------------------------
(* Dates (date-fns) *)

\* startOfDay(t): local midnight of t's local calendar day
MutStartOfDayIdentity(t, zone) == t

startOfDay(t, zone) == ((t + zone) \div TicksPerDay) * TicksPerDay - zone

IsTruncated(t, zone) == (t + zone) % TicksPerDay = 0

Sign(n) == IF n > 0 THEN 1 ELSE IF n < 0 THEN -1 ELSE 0
Abs(n) == IF n < 0 THEN -n ELSE n

\* differenceInCalendarDays(l, r): local calendar days from r's day to l's day
differenceInCalendarDays(l, r, zone) ==
  (startOfDay(l, zone) - startOfDay(r, zone)) \div TicksPerDay

\* compareLocalAsc(l, r) of date-fns: -1, 0 or 1
compareLocalAsc(l, r) == Sign(l - r)

\* differenceInDays(l, r): full days between r and l, truncated towards zero
differenceInDays(l, r, zone) ==
  LET sign == compareLocalAsc(l, r)
      difference == Abs(differenceInCalendarDays(l, r, zone))
      shifted == l - sign * difference * TicksPerDay
      isLastDayNotFull == IF compareLocalAsc(shifted, r) = -sign THEN 1 ELSE 0
  IN  sign * (difference - isLastDayNotFull)

\* new Date("yyyy-MM-dd") for calendar day d: midnight UTC of that day
ParseDateInput(d) == d * TicksPerDay

\* format(t, "yyyy-MM-dd"): the local calendar day of t
FormatDay(t, zone) == (t + zone) \div TicksPerDay

-----------------------------------------------------------------------------
(* The balance (App, useMemo) *)

\* Array.prototype.sort on timestamps, stable; dir = 1 ascending, -1 descending
RECURSIVE InsertSorted(_, _, _)
InsertSorted(x, s, dir) ==
  IF s = <<>> THEN <<x>>
  ELSE IF dir * (Head(s).timestamp - x.timestamp) <= 0
       THEN <<Head(s)>> \o InsertSorted(x, Tail(s), dir)
       ELSE <<x>> \o s

RECURSIVE SortByTimestamp(_, _)
SortByTimestamp(s, dir) ==
  IF s = <<>> THEN <<>>
  ELSE InsertSorted(s[Len(s)], SortByTimestamp(SubSeq(s, 1, Len(s) - 1), dir), dir)

\* the reducer: (p, c) => p - Number(c.amount)
MutReduceStepSwapped(p, c) == NumSub(Number(c.amount), p)

ReduceStep(p, c) == NumSub(p, Number(c.amount))

RECURSIVE Reduce(_, _)
Reduce(s, p) == IF s = <<>> THEN p ELSE Reduce(Tail(s), ReduceStep(p, Head(s)))

\* differenceInDays(new Date(), settings.startDate) + 1
DaysElapsed(t, startDate, zone) == differenceInDays(t, startDate, zone) + 1

Accrued(s, t, zone) ==
  NumAdd(s.startAmount, NumTimes(s.dailyBudget, DaysElapsed(t, s.startDate, zone)))

\* the value of the useMemo callback
MutBalanceZeroWithoutSettings(es, st, t, zone) ==
  IF st = <<>> THEN Reduce(SortByTimestamp(es, 1), Num(0))
  ELSE Reduce(SortByTimestamp(es, 1), Accrued(st[1], t, zone))

Balance(es, st, t, zone) ==
  IF st = <<>> THEN NaN
  ELSE Reduce(SortByTimestamp(es, 1), Accrued(st[1], t, zone))

-----------------------------------------------------------------------------
(* The object stores (idb) *)

StoreHas(store, key) == \E p \in store : p[1] = key

\* store.get(key): <<>> is undefined
StoreGet(store, key) ==
  IF StoreHas(store, key) THEN <<(CHOOSE p \in store : p[1] = key)[2]>> ELSE <<>>

\* store.put(value, key): upsert
MutStorePutKeepsOld(store, key, value) == store \cup {<<key, value>>}

StorePut(store, key, value) ==
  {p \in store : p[1] # key} \cup {<<key, value>>}

\* store.getAll() of "entries": the records in key (id) order
RECURSIVE GetAll(_)
GetAll(store) ==
  IF store = {} THEN <<>>
  ELSE LET first == CHOOSE e \in store : \A o \in store : e.id <= o.id
       IN  <<first>> \o GetAll(store \ {first})

-----------------------------------------------------------------------------
(* Settings records *)

Missing == "<undefined>"    \* the record has no anonymousId property
NanoIds == <<"id1", "id2", "id3", "id4">>
\* nanoid() in the k-th session: ids are unique, so no two sessions get the same
nanoid(k) == NanoIds[k]
TzOffsets == {-1, 0}        \* time zones a session may run in

SettingsRec(auid, budget, amount, date, order) ==
  [anonymousId |-> auid, dailyBudget |-> budget, startAmount |-> amount,
   startDate |-> date, order |-> order]

\* initSettings of a first run
MutInitSettingsRawDate(auid, t, zone) ==
  SettingsRec(auid, Num(DefaultDailyBudget * Unit), Num(DefaultStartAmount * Unit),
              t, "init")

initSettings(auid, t, zone) ==
  SettingsRec(auid, Num(DefaultDailyBudget * Unit), Num(DefaultStartAmount * Unit),
              startOfDay(t, zone), "init")

\* auid of the normalization: the stored id, or nanoid() when there is none
MutAuidAlwaysFresh(result, fresh) == fresh

Auid(result, fresh) ==
  IF result.anonymousId = Missing \/ result.anonymousId = ""
  THEN fresh ELSE result.anonymousId

\* normalizedSettings = {...result, anonymousId: auid, startDate: startOfDay(...)}
MutNormalizedFromDefaults(result, fresh, zone) ==
  SettingsRec(Auid(result, fresh), Num(DefaultDailyBudget * Unit),
              Num(DefaultStartAmount * Unit), startOfDay(result.startDate, zone),
              result.order)

normalizedSettings(result, fresh, zone) ==
  [result EXCEPT !.anonymousId = Auid(result, fresh),
                 !.startDate = startOfDay(result.startDate, zone)]

\* the argument of onUpdate in the commit timer's callback
MutCommitValueDropsAuid(data) ==
  SettingsRec("",
              IF isNaN(Number(data.dailyBudget)) THEN Num(0) ELSE Number(data.dailyBudget),
              IF isNaN(Number(data.startAmount)) THEN Num(0) ELSE Number(data.startAmount),
              data.startDate, "update")

MutCommitValueNoCoercion(data) ==
  SettingsRec(data.anonymousId, Number(data.dailyBudget), Number(data.startAmount),
              data.startDate, "update")

CommitValue(data) ==
  SettingsRec(data.anonymousId,
              IF isNaN(Number(data.dailyBudget)) THEN Num(0) ELSE Number(data.dailyBudget),
              IF isNaN(Number(data.startAmount)) THEN Num(0) ELSE Number(data.startAmount),
              data.startDate, "update")

\* the records the previous revision of the app (lines 1-377) left behind:
\* no anonymousId, startDate a midnight of the zone it was written in
LegacyRecords ==
  {SettingsRec(Missing, Num(DefaultDailyBudget * Unit), Num(100 * Unit), d, "legacy") :
     d \in {0}}

-----------------------------------------------------------------------------
(* The SettingsEditor component *)

\* key={JSON.stringify(settings)}: the values, in property order
EditorKey(s) == s

\* the state of a freshly mounted editor, and its first effect run
MountEditor(s) ==
  [key |-> EditorKey(s),
   data |-> [anonymousId |-> s.anonymousId, startDate |-> s.startDate,
             dailyBudget |-> toFixed(s.dailyBudget),
             startAmount |-> toFixed(s.startAmount)],
   savingSettings |-> TRUE,
   timerId |-> TRUE,
   timerId2 |-> TRUE,
   edited |-> FALSE]

\* what React keeps of the editor after App rendered with (editing, st)
Reconcile(editing, st, old) ==
  IF ~editing \/ st = <<>> THEN <<>>
  ELSE IF old = <<>> THEN <<MountEditor(st[1])>>
  ELSE IF old[1].key # EditorKey(st[1]) THEN <<MountEditor(st[1])>>
  ELSE old

\* the entries array after a render: sorted by useMemo, then by the ledger
RenderEntries(es) == SortByTimestamp(SortByTimestamp(es, 1), -1)

-----------------------------------------------------------------------------
(* What the user may type *)

BudgetTexts == {EmptyStr, JunkStr, DecStr(50 * Unit)}
AmountTexts == {JunkStr}
DateInputs == {1}
SpendAmounts == {Num(30 * Unit)}

\* the "New Spend" button is enabled
SpendEnabled(a) == ~isNaN(Number(a)) /\ Number(a) # Num(0)

-----------------------------------------------------------------------------
(* Requests *)

SReq(op, val) == [op |-> op, val |-> val]
EReq(op, entry, id) == [op |-> op, entry |-> entry, id |-> id]

NewEntry(t, a, note) == [id |-> 0, timestamp |-> t, amount |-> a, note |-> note]

AddsQueued == Cardinality({i \in 1..Len(qEntries) : qEntries[i].op = "add"})

-----------------------------------------------------------------------------
(* Initial states: a new database, or one the previous revision left *)

\* runs: the sessions started; firstRun, firstAuid: the first session whose
\* initialization completed and the anonymousId it stored; edits: the field
\* edits made; sinceEdit: the commits launched since the last edit, when that
\* edit was made with no settings request in flight (-1 otherwise)
HistInit ==
  [runs |-> 1, firstRun |-> 0, firstAuid |-> "", edits |-> 0, sinceEdit |-> -1]

Init ==
  /\ now = 0
  /\ tz \in TzOffsets
  /\ dbSettings \in {{}} \cup {{<<SettingsKey, r>>} : r \in LegacyRecords}
  /\ dbEntries = {}
  /\ nextId = 1
  /\ phase = "Opening"
  /\ settings = <<>>
  /\ entries = <<>>
  /\ balance = NaN
  /\ editingSettings = FALSE
  /\ editor = <<>>
  /\ qSettings = <<>>
  /\ qEntries = <<>>
  /\ crashed = FALSE
  /\ hist = HistInit

-----------------------------------------------------------------------------
(* The initialization effect of App *)

\* openDB resolved: dbRef.current = db, getAll and get("settings") are issued
OpenDone ==
  /\ phase = "Opening"
  /\ phase' = "Loading"
  /\ qEntries' = <<EReq("getAll", <<>>, 0)>>
  /\ qSettings' = <<SReq("initGet", <<>>)>>
  /\ UNCHANGED <<now, tz, dbSettings, dbEntries, nextId, settings, entries,
                 balance, editingSettings, editor, crashed, hist>>

\* setSettings(st) and the render it causes (nothing once the tree is gone)
SetSettings(st) ==
  IF crashed
  THEN UNCHANGED <<settings, balance, entries, editor>>
  ELSE /\ settings' = st
       /\ balance' = Balance(entries, st, now, tz)
       /\ entries' = RenderEntries(entries)
       /\ editor' = Reconcile(editingSettings, st, editor)

\* settingsStore.get("settings").then(...): defaults, or the normalized record
ServeInitGet ==
  /\ qSettings # <<>> /\ Head(qSettings).op = "initGet"
  /\ LET result == StoreGet(dbSettings, SettingsKey)
         fresh == nanoid(hist.runs)
     IN    qSettings' =
             IF result = <<>>
             THEN <<SReq("initAdd", <<initSettings(fresh, now, tz)>>)>> \o Tail(qSettings)
             ELSE <<SReq("initPut", <<normalizedSettings(result[1], fresh, tz)>>)>>
                    \o Tail(qSettings)
  /\ UNCHANGED <<now, tz, dbSettings, dbEntries, nextId, phase, settings, entries,
                 balance, editingSettings, editor, qEntries, crashed, hist>>

\* settingsStore.add(initSettings, "settings").then(() => setSettings(...))
ServeInitAdd ==
  /\ qSettings # <<>> /\ Head(qSettings).op = "initAdd"
  /\ LET v == Head(qSettings).val[1]
     IN  IF StoreHas(dbSettings, SettingsKey)
         THEN \* ConstraintError: the promise rejects, nothing is set
              UNCHANGED <<dbSettings, phase, settings, balance, entries, editor, hist>>
         ELSE /\ dbSettings' = dbSettings \cup {<<SettingsKey, v>>}
              /\ SetSettings(<<v>>)
              /\ phase' = "Ready"
              /\ hist' = IF hist.firstRun # 0 THEN hist
                          ELSE [hist EXCEPT !.firstRun = hist.runs,
                                            !.firstAuid = v.anonymousId]
  /\ qSettings' = Tail(qSettings)
  /\ UNCHANGED <<now, tz, dbEntries, nextId, editingSettings, qEntries, crashed>>

\* settingsStore.put(normalizedSettings, "settings").then(() => setSettings(...))
ServeInitPut ==
  /\ qSettings # <<>> /\ Head(qSettings).op = "initPut"
  /\ LET v == Head(qSettings).val[1]
     IN  /\ dbSettings' = StorePut(dbSettings, SettingsKey, v)
         /\ SetSettings(<<v>>)
         /\ phase' = "Ready"
         /\ hist' = IF hist.firstRun # 0 THEN hist
                     ELSE [hist EXCEPT !.firstRun = hist.runs,
                                       !.firstAuid = v.anonymousId]
  /\ qSettings' = Tail(qSettings)
  /\ UNCHANGED <<now, tz, dbEntries, nextId, editingSettings, qEntries, crashed>>

-----------------------------------------------------------------------------
(* Settings: onUpdate and loadSettings *)

\* await store.put(s, "settings"); then loadSettings() issues its get
ServePut ==
  /\ qSettings # <<>> /\ Head(qSettings).op = "put"
  /\ dbSettings' = StorePut(dbSettings, SettingsKey, Head(qSettings).val[1])
  /\ qSettings' = Tail(qSettings) \o <<SReq("get", <<>>)>>
  /\ UNCHANGED <<now, tz, dbEntries, nextId, phase, settings, entries, balance,
                 editingSettings, editor, qEntries, crashed, hist>>

\* const _settings = await store.get("settings"); setSettings(_settings)
ServeGet ==
  /\ qSettings # <<>> /\ Head(qSettings).op = "get"
  /\ SetSettings(StoreGet(dbSettings, SettingsKey))
  /\ qSettings' = Tail(qSettings)
  /\ UNCHANGED <<now, tz, dbSettings, dbEntries, nextId, phase, editingSettings,
                 qEntries, crashed, hist>>

-----------------------------------------------------------------------------
(* Entries: loadEntries, onNewEntry, deleteEntry *)

\* setEntries(v) and the render it causes
SetEntries(v) ==
  IF crashed
  THEN UNCHANGED <<entries, balance>>
  ELSE /\ entries' = RenderEntries(v)
       /\ balance' = Balance(v, settings, now, tz)

\* store.getAll() resolved
ServeGetAll ==
  /\ qEntries # <<>> /\ Head(qEntries).op = "getAll"
  /\ SetEntries(GetAll(dbEntries))
  /\ qEntries' = Tail(qEntries)
  /\ UNCHANGED <<now, tz, dbSettings, dbEntries, nextId, phase, settings,
                 editingSettings, editor, qSettings, crashed, hist>>

\* await store.add(entry): the key generator gives the id; then loadEntries()
MutServeAddCountsEntries ==
  /\ qEntries # <<>> /\ Head(qEntries).op = "add"
  /\ dbEntries' = dbEntries \cup
       {[Head(qEntries).entry[1] EXCEPT !.id = Cardinality(dbEntries) + 1]}
  /\ nextId' = Cardinality(dbEntries) + 2
  /\ qEntries' = Tail(qEntries) \o <<EReq("getAll", <<>>, 0)>>
  /\ UNCHANGED <<now, tz, dbSettings, phase, settings, entries, balance,
                 editingSettings, editor, qSettings, crashed, hist>>

MutServeAddChargesSettings ==
  /\ qEntries # <<>> /\ Head(qEntries).op = "add"
  /\ dbEntries' = dbEntries \cup {[Head(qEntries).entry[1] EXCEPT !.id = nextId]}
  /\ dbSettings' =
       {<<p[1], [p[2] EXCEPT !.startAmount =
                   NumSub(@, Number(Head(qEntries).entry[1].amount))]>> : p \in dbSettings}
  /\ nextId' = nextId + 1
  /\ qEntries' = Tail(qEntries) \o <<EReq("getAll", <<>>, 0)>>
  /\ UNCHANGED <<now, tz, phase, settings, entries, balance,
                 editingSettings, editor, qSettings, crashed, hist>>

MutServeAddPutsOverLast ==
  /\ qEntries # <<>> /\ Head(qEntries).op = "add"
  /\ dbEntries' = {e \in dbEntries : e.id # nextId - 1} \cup
       {[Head(qEntries).entry[1] EXCEPT !.id = IF nextId > 1 THEN nextId - 1 ELSE nextId]}
  /\ nextId' = nextId + 1
  /\ qEntries' = Tail(qEntries) \o <<EReq("getAll", <<>>, 0)>>
  /\ UNCHANGED <<now, tz, dbSettings, phase, settings, entries, balance,
                 editingSettings, editor, qSettings, crashed, hist>>

ServeAdd ==
  /\ qEntries # <<>> /\ Head(qEntries).op = "add"
  /\ dbEntries' = dbEntries \cup {[Head(qEntries).entry[1] EXCEPT !.id = nextId]}
  /\ nextId' = nextId + 1
  /\ qEntries' = Tail(qEntries) \o <<EReq("getAll", <<>>, 0)>>
  /\ UNCHANGED <<now, tz, dbSettings, phase, settings, entries, balance,
                 editingSettings, editor, qSettings, crashed, hist>>

\* await store.delete(id); then loadEntries()
MutServeDeleteUpTo ==
  /\ qEntries # <<>> /\ Head(qEntries).op = "delete"
  /\ dbEntries' = {e \in dbEntries : e.id > Head(qEntries).id}
  /\ qEntries' = Tail(qEntries) \o <<EReq("getAll", <<>>, 0)>>
  /\ UNCHANGED <<now, tz, dbSettings, nextId, phase, settings, entries, balance,
                 editingSettings, editor, qSettings, crashed, hist>>

MutServeDeleteNoReload ==
  /\ qEntries # <<>> /\ Head(qEntries).op = "delete"
  /\ dbEntries' = {e \in dbEntries : e.id # Head(qEntries).id}
  /\ qEntries' = Tail(qEntries)
  /\ UNCHANGED <<now, tz, dbSettings, nextId, phase, settings, entries, balance,
                 editingSettings, editor, qSettings, crashed, hist>>

ServeDelete ==
  /\ qEntries # <<>> /\ Head(qEntries).op = "delete"
  /\ dbEntries' = {e \in dbEntries : e.id # Head(qEntries).id}
  /\ qEntries' = Tail(qEntries) \o <<EReq("getAll", <<>>, 0)>>
  /\ UNCHANGED <<now, tz, dbSettings, nextId, phase, settings, entries, balance,
                 editingSettings, editor, qSettings, crashed, hist>>

\* the "New Spend" button: onNewEntry({...entry, timestamp: new Date()})
NewSpend ==
  /\ phase \in {"Loading", "Ready"}
  /\ ~crashed /\ ~editingSettings
  /\ Len(qEntries) < MaxEntryQueue
  /\ nextId + AddsQueued <= MaxId
  /\ \E a \in SpendAmounts :
       /\ SpendEnabled(a)
       /\ qEntries' = Append(qEntries, EReq("add", <<NewEntry(now, a, "")>>, 0))
  /\ UNCHANGED <<now, tz, dbSettings, dbEntries, nextId, phase, settings, entries,
                 balance, editingSettings, editor, qSettings, crashed, hist>>

\* the delete button of a displayed entry: deleteEntry(entry.id)
DeleteClick ==
  /\ ~crashed
  /\ Len(qEntries) < MaxEntryQueue
  /\ \E i \in 1..Len(entries) :
       qEntries' = Append(qEntries, EReq("delete", <<>>, entries[i].id))
  /\ UNCHANGED <<now, tz, dbSettings, dbEntries, nextId, phase, settings, entries,
                 balance, editingSettings, editor, qSettings, crashed, hist>>

-----------------------------------------------------------------------------
(* The settings panel *)

\* the gear button: setEditingSettings((a) => !a)
ToggleSettings ==
  /\ ~crashed
  /\ editingSettings' = ~editingSettings
  /\ editor' = Reconcile(~editingSettings, settings, editor)
  /\ entries' = RenderEntries(entries)
  /\ UNCHANGED <<now, tz, dbSettings, dbEntries, nextId, phase, settings, balance,
                 qSettings, qEntries, crashed, hist>>

\* setData(...) and the effect on [data]: both timers are cleared and set anew
Edited(data) ==
  /\ editor' = <<[editor[1] EXCEPT !.data = data, !.timerId = TRUE,
                                   !.timerId2 = TRUE, !.edited = TRUE]>>
  /\ hist' = [hist EXCEPT !.edits = @ + 1,
                          !.sinceEdit = IF qSettings = <<>> THEN 0 ELSE -1]
  /\ UNCHANGED <<now, tz, dbSettings, dbEntries, nextId, phase, settings, entries,
                 balance, editingSettings, qSettings, qEntries, crashed>>

CanEdit ==
  ~crashed /\ editor # <<>> /\ ~editor[1].savingSettings /\ hist.edits < MaxEdits

EditDailyBudget ==
  /\ CanEdit
  /\ \E t \in BudgetTexts :
       /\ t # editor[1].data.dailyBudget
       /\ Edited([editor[1].data EXCEPT !.dailyBudget = t])

EditStartAmount ==
  /\ CanEdit
  /\ \E t \in AmountTexts :
       /\ t # editor[1].data.startAmount
       /\ Edited([editor[1].data EXCEPT !.startAmount = t])

\* the date input: startOfDay(new Date(e.target.value))
EditStartDate ==
  /\ CanEdit
  /\ \E d \in DateInputs :
       /\ d # FormatDay(editor[1].data.startDate, tz)
       /\ Edited([editor[1].data EXCEPT !.startDate = startOfDay(ParseDateInput(d), tz)])

\* the date input cleared: new Date("") is an Invalid Date, format() of it
\* throws in the next render and React unmounts the tree (timers cleared)
ClearStartDate ==
  /\ CanEdit
  /\ crashed' = TRUE
  /\ editor' = <<>>
  /\ UNCHANGED <<now, tz, dbSettings, dbEntries, nextId, phase, settings, entries,
                 balance, editingSettings, qSettings, qEntries, hist>>

\* the timer `id`: setSavingSettings(true); onUpdate({...})
FireId ==
  /\ ~crashed /\ editor # <<>> /\ editor[1].timerId
  /\ Len(qSettings) < MaxQueue
  /\ editor' = <<[editor[1] EXCEPT !.savingSettings = TRUE,
                                   !.timerId = FALSE]>>
  /\ qSettings' = Append(qSettings, SReq("put", <<CommitValue(editor[1].data)>>))
  /\ hist' = [hist EXCEPT !.sinceEdit = IF @ \in {0, 1} THEN @ + 1 ELSE @]
  /\ UNCHANGED <<now, tz, dbSettings, dbEntries, nextId, phase, settings, entries,
                 balance, editingSettings, qEntries, crashed>>

\* the timer `id2`, due SavingDelay after the effect: setSavingSettings(false)
FireId2 ==
  /\ ~crashed /\ editor # <<>> /\ editor[1].timerId2
  /\ editor[1].timerId => SavingDelay < CommitDelay
  /\ editor' = <<[editor[1] EXCEPT !.savingSettings = FALSE, !.timerId2 = FALSE]>>
  /\ UNCHANGED <<now, tz, dbSettings, dbEntries, nextId, phase, settings, entries,
                 balance, editingSettings, qSettings, qEntries, crashed, hist>>

-----------------------------------------------------------------------------
(* The host *)

AdvanceClock ==
  /\ now < MaxNow
  /\ now' = now + 1
  /\ UNCHANGED <<tz, dbSettings, dbEntries, nextId, phase, settings, entries,
                 balance, editingSettings, editor, qSettings, qEntries, crashed, hist>>

\* the page is loaded again (possibly in another time zone): the component
\* state is gone, requests not yet served are aborted, the database stays
Reload ==
  /\ hist.runs < MaxRuns
  /\ tz' \in TzOffsets
  /\ phase' = "Opening"
  /\ settings' = <<>>
  /\ entries' = <<>>
  /\ balance' = NaN
  /\ editingSettings' = FALSE
  /\ editor' = <<>>
  /\ qSettings' = <<>>
  /\ qEntries' = <<>>
  /\ crashed' = FALSE
  /\ hist' = [hist EXCEPT !.runs = @ + 1, !.sinceEdit = -1]
  /\ UNCHANGED <<now, dbSettings, dbEntries, nextId>>

Next ==
  \/ OpenDone
  \/ ServeInitGet
  \/ ServeInitAdd
  \/ ServeInitPut
  \/ ServePut
  \/ ServeGet
  \/ ServeGetAll
  \/ ServeAdd
  \/ ServeDelete
  \/ NewSpend
  \/ DeleteClick
  \/ ToggleSettings
  \/ EditDailyBudget
  \/ EditStartAmount
  \/ EditStartDate
  \/ ClearStartDate
  \/ FireId
  \/ FireId2
  \/ AdvanceClock
  \/ Reload

Spec == Init /\ [][Next]_vars

-----------------------------------------------------------------------------
(* The balance as a function: its inputs drawn from bounded sets *)

BalMaxEntries == 2    \* entries in one computation

BalAmounts == {Num(10 * Unit), DecStr(20 * Unit), Num(30 * Unit)}
BalStamps == {0, 1, TicksPerDay + 1}
BalEntries == {NewEntry(t, a, "") : t \in BalStamps, a \in BalAmounts}
BalStartDates == 0..(2 * TicksPerDay)
BalNows == 0..(3 * TicksPerDay + 1)
BalSettings ==
  {SettingsRec("id1", Num(b * Unit), Num(a * Unit), d, "init") :
     b \in {0, DefaultDailyBudget}, a \in {0, 100}, d \in BalStartDates}

RECURSIVE SeqsUpTo(_, _)
SeqsUpTo(S, n) ==
  IF n = 0 THEN {<<>>}
  ELSE SeqsUpTo(S, n - 1) \cup
       {Append(q, x) : q \in {r \in SeqsUpTo(S, n - 1) : Len(r) = n - 1}, x \in S}

InitBalance ==
  /\ now \in BalNows
  /\ tz \in TzOffsets
  /\ settings \in {<<>>} \cup {<<st>> : st \in BalSettings}
  /\ entries \in SeqsUpTo(BalEntries, BalMaxEntries)
  /\ balance = NaN
  /\ phase = "Pure"
  /\ dbSettings = {}
  /\ dbEntries = {}
  /\ nextId = 1
  /\ editingSettings = FALSE
  /\ editor = <<>>
  /\ qSettings = <<>>
  /\ qEntries = <<>>
  /\ crashed = FALSE
  /\ hist = HistInit

UnchangedByBalance ==
  UNCHANGED <<now, tz, dbSettings, dbEntries, nextId, editingSettings, editor,
              qSettings, qEntries, crashed, hist>>

\* the useMemo callback runs: entries.sort(...) in place, then reduce
ComputeBalance ==
  /\ phase = "Pure"
  /\ balance' = Balance(entries, settings, now, tz)
  /\ entries' = SortByTimestamp(entries, 1)
  /\ phase' = "Computed"
  /\ UNCHANGED settings
  /\ UnchangedByBalance

\* the ledger renders: entries.sort(...) in place, newest first
RenderLedger ==
  /\ phase = "Computed"
  /\ entries' = SortByTimestamp(entries, -1)
  /\ entries' # entries
  /\ UNCHANGED <<settings, balance, phase>>
  /\ UnchangedByBalance

\* the record is normalized: startDate: startOfDay(result.startDate)
NormalizeStartDate ==
  /\ settings # <<>>
  /\ ~IsTruncated(settings[1].startDate, tz)
  /\ settings' = <<[settings[1] EXCEPT !.startDate = startOfDay(@, tz)]>>
  /\ phase' = "Pure"
  /\ UNCHANGED <<entries, balance>>
  /\ UnchangedByBalance

NextBalance ==
  \/ ComputeBalance
  \/ RenderLedger
  \/ NormalizeStartDate

SpecBalance == InitBalance /\ [][NextBalance]_vars

-----------------------------------------------------------------------------
(* Two tabs initializing against one database *)

\* In SpecTabs the variables phase and settings hold one value per tab, and
\* qSettings holds the readwrite transactions on "settings" that have not
\* finished, in the order they were created, each with the request it waits on.
Tabs == {1, 2}

TabReq(t, op, val) == [tab |-> t, op |-> op, val |-> val]

\* the records a database may hold when the tabs open it
TabRecords ==
  LegacyRecords \cup
  {SettingsRec(a, Num(DefaultDailyBudget * Unit), Num(100 * Unit), 0, "update") :
     a \in {"", "id4"}}

\* db.transaction("settings", "readwrite"): transactions whose scopes overlap
\* run one at a time, in the order they were created
MutTxActiveAny(q, i) == TRUE

TxActive(q, i) == i = 1

ReplaceAt(q, i, r) == [q EXCEPT ![i] = r]
RemoveAt(q, i) == SubSeq(q, 1, i - 1) \o SubSeq(q, i + 1, Len(q))

InitTabs ==
  /\ now = 0
  /\ tz \in TzOffsets
  /\ dbSettings \in {{}} \cup {{<<SettingsKey, r>>} : r \in TabRecords}
  /\ dbEntries = {}
  /\ nextId = 1
  /\ phase = [t \in Tabs |-> "Opening"]
  /\ settings = [t \in Tabs |-> <<>>]
  /\ entries = <<>>
  /\ balance = NaN
  /\ editingSettings = FALSE
  /\ editor = <<>>
  /\ qSettings = <<>>
  /\ qEntries = <<>>
  /\ crashed = FALSE
  /\ hist = HistInit

UnchangedByTabs ==
  UNCHANGED <<now, tz, dbEntries, nextId, entries, balance, editingSettings,
              editor, qEntries, crashed, hist>>

\* openDB resolved in tab t: the settings transaction is created, get is issued
TabOpenDone(t) ==
  /\ phase[t] = "Opening"
  /\ phase' = [phase EXCEPT ![t] = "Loading"]
  /\ qSettings' = Append(qSettings, TabReq(t, "initGet", <<>>))
  /\ UNCHANGED <<dbSettings, settings>>
  /\ UnchangedByTabs

\* settingsStore.get("settings").then(...) in the tab of the active transaction
TabServeInitGet ==
  \E i \in 1..Len(qSettings) :
    /\ TxActive(qSettings, i)
    /\ qSettings[i].op = "initGet"
    /\ LET t == qSettings[i].tab
           result == StoreGet(dbSettings, SettingsKey)
       IN  qSettings' =
             ReplaceAt(qSettings, i,
               IF result = <<>>
               THEN TabReq(t, "initAdd", <<initSettings(nanoid(t), now, tz)>>)
               ELSE TabReq(t, "initPut", <<normalizedSettings(result[1], nanoid(t), tz)>>))
    /\ UNCHANGED <<dbSettings, phase, settings>>
    /\ UnchangedByTabs

\* settingsStore.add(initSettings, "settings").then(() => setSettings(...))
TabServeInitAdd ==
  \E i \in 1..Len(qSettings) :
    /\ TxActive(qSettings, i)
    /\ qSettings[i].op = "initAdd"
    /\ LET t == qSettings[i].tab
           v == qSettings[i].val[1]
       IN  IF StoreHas(dbSettings, SettingsKey)
           THEN \* ConstraintError: the promise rejects, nothing is set
                UNCHANGED <<dbSettings, phase, settings>>
           ELSE /\ dbSettings' = dbSettings \cup {<<SettingsKey, v>>}
                /\ settings' = [settings EXCEPT ![t] = <<v>>]
                /\ phase' = [phase EXCEPT ![t] = "Ready"]
    /\ qSettings' = RemoveAt(qSettings, i)
    /\ UnchangedByTabs

\* settingsStore.put(normalizedSettings, "settings").then(() => setSettings(...))
TabServeInitPut ==
  \E i \in 1..Len(qSettings) :
    /\ TxActive(qSettings, i)
    /\ qSettings[i].op = "initPut"
    /\ LET t == qSettings[i].tab
           v == qSettings[i].val[1]
       IN  /\ dbSettings' = StorePut(dbSettings, SettingsKey, v)
           /\ settings' = [settings EXCEPT ![t] = <<v>>]
           /\ phase' = [phase EXCEPT ![t] = "Ready"]
    /\ qSettings' = RemoveAt(qSettings, i)
    /\ UnchangedByTabs

NextTabs ==
  \/ \E t \in Tabs : TabOpenDone(t)
  \/ TabServeInitGet
  \/ TabServeInitAdd
  \/ TabServeInitPut
  \/ AdvanceClock

SpecTabs == InitTabs /\ [][NextTabs]_vars

-----------------------------------------------------------------------------
(* The store across sessions: initialization of a database an earlier session
   left, and the entry collection *)

EntMaxId == 2       \* entries ever inserted into one database
EntMaxQueue == 2    \* requests waiting on "entries"

\* settings records of the previous revision, edited by its user, and the
\* same with an empty anonymousId
StoreRecords ==
  {SettingsRec(a, Num(b * Unit), Num(100 * Unit), d, "legacy") :
     a \in {Missing, ""}, b \in {DefaultDailyBudget, 25}, d \in {0, 1}}

InitStore ==
  /\ now = 0
  /\ tz \in TzOffsets
  /\ dbSettings \in {{}} \cup {{<<SettingsKey, r>>} : r \in StoreRecords}
  /\ \/ dbEntries = {} /\ nextId = 1
     \/ dbEntries = {[NewEntry(0, Num(10 * Unit), "") EXCEPT !.id = 1]} /\ nextId = 2
  /\ phase = "Opening"
  /\ settings = <<>>
  /\ entries = <<>>
  /\ balance = NaN
  /\ editingSettings = FALSE
  /\ editor = <<>>
  /\ qSettings = <<>>
  /\ qEntries = <<>>
  /\ crashed = FALSE
  /\ hist = HistInit

\* the "New Spend" button: onNewEntry({...entry, timestamp: new Date()})
NewSpendMany ==
  /\ phase \in {"Loading", "Ready"}
  /\ ~crashed /\ ~editingSettings
  /\ Len(qEntries) < EntMaxQueue
  /\ nextId + AddsQueued <= EntMaxId
  /\ \E a \in SpendAmounts :
       /\ SpendEnabled(a)
       /\ qEntries' = Append(qEntries, EReq("add", <<NewEntry(now, a, "")>>, 0))
  /\ UNCHANGED <<now, tz, dbSettings, dbEntries, nextId, phase, settings, entries,
                 balance, editingSettings, editor, qSettings, crashed, hist>>

\* the delete button of a displayed entry, also of one whose delete is under way
DeleteClickMany ==
  /\ ~crashed
  /\ Len(qEntries) < EntMaxQueue
  /\ \E i \in 1..Len(entries) :
       qEntries' = Append(qEntries, EReq("delete", <<>>, entries[i].id))
  /\ UNCHANGED <<now, tz, dbSettings, dbEntries, nextId, phase, settings, entries,
                 balance, editingSettings, editor, qSettings, crashed, hist>>

NextStore ==
  \/ OpenDone
  \/ ServeInitGet
  \/ ServeInitAdd
  \/ ServeInitPut
  \/ ServeGetAll
  \/ ServeAdd
  \/ ServeDelete
  \/ NewSpendMany
  \/ DeleteClickMany
  \/ Reload

SpecStore == InitStore /\ [][NextStore]_vars

\* the initialization alone, as the clock moves and the page is loaded again
NextInit ==
  \/ OpenDone
  \/ ServeInitGet
  \/ ServeInitAdd
  \/ ServeInitPut
  \/ ServeGetAll
  \/ AdvanceClock
  \/ Reload

SpecInit == InitStore /\ [][NextInit]_vars

-----------------------------------------------------------------------------
(* Storage failures: the promise of a write request rejects *)

\* the requests left after the head's promise rejected: the await throws (the
\* then-callback is skipped), so what the code would do next is never issued
MutRejectedGoesOn(q, next) == Tail(q) \o <<next>>

Rejected(q, next) == Tail(q)

\* settingsStore.add(initSettings, "settings") rejects: setSettings is skipped
RejectInitAdd ==
  /\ qSettings # <<>> /\ Head(qSettings).op = "initAdd"
  /\ qSettings' = Rejected(qSettings, SReq("get", <<>>))
  /\ UNCHANGED <<now, tz, dbSettings, dbEntries, nextId, phase, settings, entries,
                 balance, editingSettings, editor, qEntries, crashed, hist>>

\* settingsStore.put(normalizedSettings, "settings") rejects
RejectInitPut ==
  /\ qSettings # <<>> /\ Head(qSettings).op = "initPut"
  /\ qSettings' = Rejected(qSettings, SReq("get", <<>>))
  /\ UNCHANGED <<now, tz, dbSettings, dbEntries, nextId, phase, settings, entries,
                 balance, editingSettings, editor, qEntries, crashed, hist>>

\* onUpdate: await store.put(s, "settings") throws, loadSettings() is skipped
RejectPut ==
  /\ qSettings # <<>> /\ Head(qSettings).op = "put"
  /\ qSettings' = Rejected(qSettings, SReq("get", <<>>))
  /\ UNCHANGED <<now, tz, dbSettings, dbEntries, nextId, phase, settings, entries,
                 balance, editingSettings, editor, qEntries, crashed, hist>>

\* onNewEntry: await store.add(entry) throws, loadEntries() is skipped
RejectAdd ==
  /\ qEntries # <<>> /\ Head(qEntries).op = "add"
  /\ qEntries' = Rejected(qEntries, EReq("getAll", <<>>, 0))
  /\ UNCHANGED <<now, tz, dbSettings, dbEntries, nextId, phase, settings, entries,
                 balance, editingSettings, editor, qSettings, crashed, hist>>

\* the delete button: await deleteEntry(entry.id) throws, loadEntries() is skipped
RejectDelete ==
  /\ qEntries # <<>> /\ Head(qEntries).op = "delete"
  /\ qEntries' = Rejected(qEntries, EReq("getAll", <<>>, 0))
  /\ UNCHANGED <<now, tz, dbSettings, dbEntries, nextId, phase, settings, entries,
                 balance, editingSettings, editor, qSettings, crashed, hist>>

NextFail ==
  \/ OpenDone
  \/ ServeInitGet
  \/ ServeInitAdd
  \/ ServeInitPut
  \/ ServePut
  \/ ServeGet
  \/ ServeGetAll
  \/ ServeAdd
  \/ ServeDelete
  \/ NewSpend
  \/ DeleteClick
  \/ ToggleSettings
  \/ EditDailyBudget
  \/ FireId
  \/ FireId2
  \/ RejectInitAdd
  \/ RejectInitPut
  \/ RejectPut
  \/ RejectAdd
  \/ RejectDelete

\* one session, in one time zone (no step of NextFail moves the clock)
InitFail == Init /\ tz = 0

SpecFail == InitFail /\ [][NextFail]_vars

-----------------------------------------------------------------------------
(* Drafts of finer amounts than a cent *)

\* a budget typed with three decimals, such as "7.555"
FineBudgetTexts == {DecStr(7 * Unit + 555 * (Unit \div 1000))}

\* the daily budget input: setData({...d, dailyBudget: e.target.value})
EditFineBudget ==
  /\ CanEdit
  /\ \E t \in FineBudgetTexts :
       /\ t # editor[1].data.dailyBudget
       /\ Edited([editor[1].data EXCEPT !.dailyBudget = t])

NextDraft ==
  \/ OpenDone
  \/ ServeInitGet
  \/ ServeInitAdd
  \/ ServeInitPut
  \/ ServeGetAll
  \/ ToggleSettings
  \/ EditFineBudget
  \/ FireId
  \/ FireId2
  \/ ServePut
  \/ ServeGet

SpecDraft == InitFail /\ [][NextDraft]_vars

-----------------------------------------------------------------------------
(* Properties *)

StoredSettings == StoreGet(dbSettings, SettingsKey)

HasAuid(st) == st # <<>> /\ st[1].anonymousId \notin {Missing, ""}

\* C1. Initialization idempotence: when a session initializes a database that
\* an earlier session has already initialized, it leaves exactly one settings
\* record and is Ready with the anonymousId the first initialization stored.
C1_InitIdempotent ==
  (phase = "Ready" /\ hist.firstRun # 0 /\ hist.runs > hist.firstRun) =>
    /\ Cardinality(dbSettings) = 1
    /\ settings # <<>>
    /\ settings[1].anonymousId = hist.firstAuid
    /\ StoredSettings[1].anonymousId = hist.firstAuid

C1_Witness ==
  /\ phase = "Ready"
  /\ hist.firstRun = 1
  /\ hist.runs = 2
  /\ settings # <<>>
  /\ settings[1].anonymousId = nanoid(1)

\* C2. Once the stored settings record has a non-empty anonymousId, no step
\* (initialization, commit, reload, entry insert, entry delete) changes it.
C2_AuidNeverRegenerated ==
  [][HasAuid(StoredSettings) =>
       (HasAuid(StoredSettings') /\
        StoredSettings'[1].anonymousId = StoredSettings[1].anonymousId)]_vars

C2_Witness ==
  /\ HasAuid(StoredSettings)
  /\ StoredSettings[1].order = "update"
  /\ hist.runs >= 2
  /\ phase = "Ready"
  /\ nextId > 1
  /\ dbEntries = {}

\* C3. After initialization has completed, the store holds exactly one settings
\* record, under the key "settings", and its anonymousId is not empty.
C3_OneSettingsRecord ==
  phase = "Ready" =>
    /\ Cardinality(dbSettings) = 1
    /\ StoreHas(dbSettings, SettingsKey)
    /\ HasAuid(StoredSettings)

C3_Witness ==
  /\ phase = "Ready"
  /\ Cardinality(dbSettings) = 1
  /\ StoredSettings[1].order = "update"
  /\ StoredSettings[1].dailyBudget # Num(DefaultDailyBudget * Unit)
  /\ nextId > 1
  /\ dbEntries = {}

\* C4. After initialization has completed, the stored startDate is a local
\* midnight: it has no time-of-day component in the session's time zone.
C4_StartDateTruncated ==
  phase = "Ready" =>
    /\ StoredSettings # <<>>
    /\ IsTruncated(StoredSettings[1].startDate, tz)

\* a committed draft whose date the date control's value is no midnight of,
\* in a session after one that stored a date in another time zone
C4_Witness ==
  /\ phase = "Ready"
  /\ hist.runs >= 2
  /\ StoredSettings # <<>>
  /\ StoredSettings[1].order = "update"
  /\ \E d \in DateInputs :
       /\ ~IsTruncated(ParseDateInput(d), tz)
       /\ StoredSettings[1].startDate = startOfDay(ParseDateInput(d), tz)

RECURSIVE SumAmounts(_)
SumAmounts(es) ==
  IF es = <<>> THEN 0 ELSE Number(Head(es).amount).v + SumAmounts(Tail(es))

Orders(es) ==
  IF es = <<>> THEN {<<>>}
  ELSE {[i \in 1..Len(es) |-> es[p[i]]] : p \in Permutations(1..Len(es))}

\* C5. The computed balance is startAmount + dailyBudget * daysElapsed minus
\* the sum of the entry amounts, whatever the order the entries are visited
\* in; 100 + 40 * 3 - 30 = 190.
C5_BalanceFormula ==
  (phase = "Computed" /\ settings # <<>>) =>
    LET st == settings[1]
        days == DaysElapsed(now, st.startDate, tz)
        expected == Num(st.startAmount.v + st.dailyBudget.v * days - SumAmounts(entries))
    IN  /\ balance = expected
        /\ \A o \in Orders(entries) : Reduce(o, Accrued(st, now, tz)) = expected
        /\ (/\ st.startAmount = Num(100 * Unit)
            /\ st.dailyBudget = Num(40 * Unit)
            /\ IsTruncated(st.startDate, tz)
            /\ now - st.startDate = 2 * TicksPerDay
            /\ SumAmounts(entries) = 30 * Unit) => balance = Num(190 * Unit)

C5_Witness ==
  /\ phase = "Computed"
  /\ settings # <<>>
  /\ settings[1].startAmount = Num(100 * Unit)
  /\ settings[1].dailyBudget = Num(40 * Unit)
  /\ IsTruncated(settings[1].startDate, tz)
  /\ now - settings[1].startDate = 2 * TicksPerDay
  /\ Len(entries) = 2
  /\ entries[1].timestamp < entries[2].timestamp
  /\ SumAmounts(entries) = 30 * Unit
  /\ balance = Num(190 * Unit)

\* C6. daysElapsed is the calendar-day difference between now and startDate
\* plus one, also when now is earlier than startDate (here for the midnight
\* startDates the balance is computed with).
C6_DaysElapsedIsCalendarDifference ==
  (settings # <<>> /\ IsTruncated(settings[1].startDate, tz)) =>
    DaysElapsed(now, settings[1].startDate, tz) =
      differenceInCalendarDays(now, settings[1].startDate, tz) + 1

\* C7. Truncating startDate to midnight does not change the balance (here for
\* the instants now that are not earlier than startDate).
C7_TruncationKeepsBalance ==
  (settings # <<>> /\ now >= settings[1].startDate) =>
    Balance(entries, settings, now, tz) =
      Balance(entries, <<[settings[1] EXCEPT !.startDate = startOfDay(@, tz)]>>, now, tz)

\* C8. Debounce coalescing: a burst of edits leads to exactly one write, so
\* after an edit (made while no settings request was in flight) at most one
\* commit is launched until the next edit.
C8_OneWritePerBurst == hist.sinceEdit <= 1

\* settings commits in flight: a put, or the reload that follows it
CommitsInFlight ==
  Cardinality({i \in 1..Len(qSettings) : qSettings[i].op \in {"put", "get"}})

\* C9. At most one settings commit is in flight, and while one is in flight no
\* edit has its commit timer running.
C9_OneCommitInFlight ==
  /\ CommitsInFlight <= 1
  /\ (CommitsInFlight >= 1 /\ editor # <<>> /\ editor[1].edited) => ~editor[1].timerId

NotNumeric(t) == isNaN(Number(t)) \/ t = EmptyStr

\* C10. Draft coercion: the commit of a draft whose dailyBudget or startAmount
\* text is no number is launched all the same and writes 0 for that field; the
\* store takes the record as it is, the reload puts it in memory, and the
\* balance computed from it accrues nothing when dailyBudget was coerced.
C10_DraftCoercion ==
  [][/\ FireId =>
          LET d == editor[1].data
              v == qSettings'[Len(qSettings')]
          IN  /\ Len(qSettings') = Len(qSettings) + 1
              /\ v.op = "put"
              /\ NotNumeric(d.dailyBudget) => v.val[1].dailyBudget = Num(0)
              /\ NotNumeric(d.startAmount) => v.val[1].startAmount = Num(0)
     /\ ServePut => StoredSettings' = Head(qSettings).val
     /\ (ServeGet /\ ~crashed) =>
          /\ settings' = StoredSettings
          /\ (settings'[1].dailyBudget = Num(0) =>
                balance' = Num(settings'[1].startAmount.v - SumAmounts(entries')))
    ]_vars

C10_Witness ==
  /\ editor # <<>>
  /\ editor[1].data.dailyBudget = JunkStr
  /\ editor[1].data.startAmount = JunkStr
  /\ \E i \in 1..Len(qSettings) :
       /\ qSettings[i].op = "put"
       /\ qSettings[i].val[1].dailyBudget = Num(0)
       /\ qSettings[i].val[1].startAmount = Num(0)

\* C11. Concurrent initialization: when two tabs have run the initialization
\* against one store, in any interleaving of their storage steps, the store
\* holds exactly one settings record, both tabs are Ready and both hold the
\* anonymousId that is in the store.
C11_ConcurrentInitTolerated ==
  (qSettings = <<>> /\ \A t \in Tabs : phase[t] # "Opening") =>
    /\ Cardinality(dbSettings) = 1
    /\ HasAuid(StoredSettings)
    /\ \A t \in Tabs :
         /\ phase[t] = "Ready"
         /\ settings[t] # <<>>
         /\ settings[t][1].anonymousId = StoredSettings[1].anonymousId

\* both tabs opened before either was served, the second tab created its
\* transaction first and seeded the store, the first tab normalized its record
C11_Witness ==
  /\ qSettings = <<>>
  /\ \A t \in Tabs : phase[t] = "Ready"
  /\ StoredSettings[1].order = "init"
  /\ StoredSettings[1].anonymousId = nanoid(2)
  /\ settings[1] = StoredSettings

Ids(store) == {e.id : e \in store}

\* C12. Entry ids are unique and never reused: every insert gives the new entry
\* an id that no entry inserted before has had, deleted ones included (all of
\* those are below the key generator, which never goes back), and ids are
\* assigned in increasing order.
C12_IdsNeverReused ==
  [][/\ nextId' >= nextId
     /\ Ids(dbEntries) \subseteq 1..(nextId - 1)
     /\ \A e \in dbEntries' :
          e.id \notin Ids(dbEntries) => (e.id >= nextId /\ nextId' > e.id)
     /\ \A e, f \in dbEntries' : e.id = f.id => e = f
     /\ ServeAdd => Cardinality(dbEntries') = Cardinality(dbEntries) + 1
    ]_vars

\* the entry with id 1 was shown and deleted, the reload showed an empty
\* ledger, and the insert that followed got id 2
C12_Witness ==
  /\ hist.runs = 1
  /\ nextId = 3
  /\ Ids(dbEntries) = {2}
  /\ entries = <<>>
  /\ qEntries = <<EReq("getAll", <<>>, 0)>>

\* C13. Delete by id removes exactly the entry with that id and leaves every
\* other entry, the key generator and the settings record unchanged; the
\* delete of an id that is not in the store changes nothing and resolves (the
\* reload that follows it is issued).
C13_DeleteExactlyOne ==
  [][ServeDelete =>
       LET gone == {e \in dbEntries : e.id = Head(qEntries).id}
       IN  /\ Cardinality(gone) <= 1
           /\ dbEntries' \cup gone = dbEntries
           /\ dbEntries' \cap gone = {}
           /\ dbSettings' = dbSettings
           /\ nextId' = nextId
           /\ Len(qEntries') = Len(qEntries)
           /\ qEntries'[Len(qEntries')].op = "getAll"
    ]_vars

\* two entries are shown, the delete button of the first was pressed twice:
\* both deletes are served, the second found nothing, the other entry is there
C13_Witness ==
  /\ hist.runs = 1
  /\ nextId = 3
  /\ Ids(dbEntries) = {2}
  /\ Len(entries) = 2
  /\ qEntries = <<EReq("getAll", <<>>, 0), EReq("getAll", <<>>, 0)>>

\* C16. In-place upgrade: the initialization of a store whose settings record
\* has no anonymousId, or an empty one, writes back a record with a fresh
\* non-empty anonymousId, the old dailyBudget and startAmount and the old
\* startDate truncated to midnight, and leaves the entries unchanged.
C16_UpgradeInPlace ==
  [][/\ (OpenDone \/ ServeInitGet) =>
          (dbSettings' = dbSettings /\ dbEntries' = dbEntries /\ nextId' = nextId)
     /\ (ServeInitPut /\ ~HasAuid(StoredSettings)) =>
          /\ Cardinality(dbSettings') = 1
          /\ HasAuid(StoredSettings')
          /\ StoredSettings'[1].anonymousId = nanoid(hist.runs)
          /\ StoredSettings'[1].dailyBudget = StoredSettings[1].dailyBudget
          /\ StoredSettings'[1].startAmount = StoredSettings[1].startAmount
          /\ StoredSettings'[1].startDate = startOfDay(StoredSettings[1].startDate, tz)
          /\ settings' = StoredSettings'
          /\ dbEntries' = dbEntries
          /\ nextId' = nextId
    ]_vars

\* an upgraded record with an edited budget, a startDate that the truncation
\* moved (no record starts with this one), and the entry of the earlier session
C16_Witness ==
  /\ phase = "Ready"
  /\ hist.runs = 1
  /\ HasAuid(StoredSettings)
  /\ StoredSettings[1].order = "legacy"
  /\ StoredSettings[1].dailyBudget = Num(25 * Unit)
  /\ StoredSettings[1].startDate = -1
  /\ Ids(dbEntries) = {1}

\* C20. First-run seeding: when the initialization finds no settings record,
\* the record it adds has startAmount 0, dailyBudget 40, startDate today at
\* midnight and a fresh non-empty anonymousId; the in-memory settings at Ready
\* equal the stored record, and are defined only once the add has succeeded.
C20_FirstRunSeeding ==
  [][/\ (ServeInitGet /\ dbSettings = {}) =>
          /\ Head(qSettings').op = "initAdd"
          /\ Head(qSettings').val =
               <<SettingsRec(nanoid(hist.runs), Num(DefaultDailyBudget * Unit),
                             Num(DefaultStartAmount * Unit), startOfDay(now, tz), "init")>>
          /\ IsTruncated(Head(qSettings').val[1].startDate, tz)
          /\ Head(qSettings').val[1].anonymousId \notin {Missing, ""}
          /\ settings' = <<>>
          /\ dbSettings' = {}
     /\ ServeInitAdd =>
          /\ dbSettings' = {<<SettingsKey, Head(qSettings).val[1]>>}
          /\ settings' = StoredSettings'
          /\ phase' = "Ready"
     /\ (settings = <<>> /\ settings' # <<>>) => settings' = StoredSettings'
    ]_vars

\* seeded after the clock had moved on: the start date is that day's midnight
C20_Witness ==
  /\ phase = "Ready"
  /\ hist.runs = 1
  /\ now = MaxNow
  /\ settings = StoredSettings
  /\ StoredSettings[1].order = "init"
  /\ StoredSettings[1].startDate = startOfDay(MaxNow, tz)
  /\ StoredSettings[1].startDate # startOfDay(0, tz)

\* C14. While no settings record is loaded in memory (before the session is
\* Ready, or when it never is), the computed balance is NaN for every set of
\* entries, never zero or another number.
C14_BalanceNaNWithoutSettings == settings = <<>> => balance = NaN

\* the initialization failed, the session is never Ready, an entry is loaded
C14_Witness ==
  /\ phase = "Loading"
  /\ qSettings = <<>>
  /\ settings = <<>>
  /\ entries # <<>>
  /\ balance = NaN

Dirty == ~crashed /\ editor # <<>> /\ editor[1].edited /\ editor[1].timerId

\* C18. Every dirty draft is committed: once a field is edited (here with no
\* settings request under way) the draft's commit timer stays set, through
\* whatever the user does short of leaving the page, until a further edit sets
\* it anew or it fires and launches the put of the draft's normalized values.
C18_DirtyDraftCommitted ==
  [][(Dirty /\ qSettings = <<>> /\ hist'.runs = hist.runs /\ ~crashed') =>
       \/ editor' # <<>> /\ editor'[1].edited /\ editor'[1].timerId
       \/ qSettings' = <<SReq("put", <<CommitValue(editor[1].data)>>)>>
    ]_vars

\* C19. After the initialization the stored settings record changes only by a
\* settings commit: entry insert, entry delete, entry reload and settings
\* reload leave it unchanged, and a settings commit leaves the entries
\* unchanged.
C19_SettingsWrittenOnlyByCommit ==
  [][/\ (ServeAdd \/ ServeDelete \/ ServeGetAll \/ ServeGet) => dbSettings' = dbSettings
     /\ ServePut => (dbEntries' = dbEntries /\ nextId' = nextId /\ entries' = entries)
     /\ (phase = "Ready" /\ dbSettings' # dbSettings) =>
          /\ qSettings # <<>>
          /\ Head(qSettings).op = "put"
          /\ Head(qSettings).val[1].order = "update"
          /\ dbSettings' = {<<SettingsKey, Head(qSettings).val[1]>>}
          /\ dbEntries' = dbEntries
    ]_vars

\* an edited budget was committed and an entry inserted
C19_Witness ==
  /\ phase = "Ready"
  /\ qSettings = <<>>
  /\ qEntries = <<>>
  /\ StoredSettings[1].order = "update"
  /\ StoredSettings[1].dailyBudget = Num(50 * Unit)
  /\ settings = StoredSettings
  /\ dbEntries # {}
  /\ Len(entries) = 1

\* C21. Entries are immutable: the timestamp, amount and note stored under an
\* id stay the same from the insert to the delete of that id, through inserts
\* and deletes of other entries, reloads, the sorts of the in-memory array and
\* page loads.
C21_EntriesImmutable ==
  [][\A e \in dbEntries : e.id \in Ids(dbEntries') => e \in dbEntries']_vars

\* the entry of the earlier session is still there, as loaded and shown by a
\* second session, after another entry was inserted and deleted
C21_Witness ==
  /\ hist.runs = 2
  /\ phase = "Ready"
  /\ nextId = 3
  /\ dbEntries = {[NewEntry(0, Num(10 * Unit), "") EXCEPT !.id = 1]}
  /\ Len(entries) = 1
  /\ qEntries = <<>>

\* the set of the entries of the in-memory array
InMemory == {entries[i] : i \in 1..Len(entries)}

\* C24. The in-memory entries converge to the store: once every insert, delete
\* and load issued has finished, in whatever order they were issued, the
\* in-memory entries are exactly the stored ones (each once), and the balance
\* shown subtracts exactly the stored amounts.
C24_EntriesConverge ==
  (phase # "Opening" /\ qEntries = <<>>) =>
    /\ InMemory = dbEntries
    /\ Len(entries) = Cardinality(dbEntries)
    /\ (phase = "Ready" /\ qSettings = <<>>) =>
         balance = Num(Accrued(settings[1], now, tz).v - SumAmounts(GetAll(dbEntries)))

\* the first entry was inserted and deleted, the second inserted: all served
C24_Witness ==
  /\ hist.runs = 1
  /\ phase = "Ready"
  /\ qEntries = <<>>
  /\ nextId = 3
  /\ Ids(dbEntries) = {2}
  /\ Len(entries) = 1
  /\ entries[1].id = 2
  /\ balance = Num(Accrued(settings[1], now, tz).v - 30 * Unit)

\* C23. A settings write is issued only as the result of an edit: every put
\* the editor launches comes after a field edit made since the editor was
\* mounted or since its last commit; opening the editor and waiting writes
\* nothing.
C23_WriteOnlyAfterEdit ==
  [][FireId => editor[1].edited]_vars

\* C22. Committing a draft that has not been edited leaves the stored settings
\* unchanged: the draft built from the stored record (amounts as text of two
\* decimals), committed without an edit (here with no settings request under
\* way), writes the stored dailyBudget, startAmount, startDate and anonymousId.
C22_UneditedCommitKeepsRecord ==
  [][(FireId /\ ~editor[1].edited /\ qSettings = <<>> /\ settings = StoredSettings) =>
       LET v == CommitValue(editor[1].data)
           r == StoredSettings[1]
       IN  /\ v.dailyBudget = r.dailyBudget
           /\ v.startAmount = r.startAmount
           /\ v.startDate = r.startDate
           /\ v.anonymousId = r.anonymousId
    ]_vars

====
